---- MODULE Spec2Model ----
(***************************************************************************)
(* State-machine model of the NLPipeline service (fastapi_app/main.py and  *)
(* fastapi_app/db_loader.py) running as several replicas against one       *)
(* PostgreSQL database.                                                    *)
(*                                                                         *)
(* The database is modelled by what the SQL statements of the source do on *)
(* PostgreSQL: READ COMMITTED transactions (uncommitted writes are private *)
(* to their session, a write that conflicts with another session's         *)
(* uncommitted write waits), transactional DDL, a SERIAL sequence whose    *)
(* nextval/setval are not undone by rollback and whose minimum value is 1, *)
(* and pg_try_advisory_lock, a session-level lock that is held until the   *)
(* session (connection) ends.  A connection opened through the engine goes *)
(* back to the engine's pool when its "async with" block ends and is only  *)
(* closed when the process exits.                                          *)
(***************************************************************************)
EXTENDS Integers, Sequences, FiniteSets, TLC

\* ------------------------------------------------------------------ bounds
MaxRestarts == 1
MaxRequests == 2
MaxId == 4
MaxExplicitId == 12
MaxCalls == 4

\* ------------------------------------------------------- program constants
SeqMinValue == 1
SeqStart == 1

Replicas == {"r1", "r2"}
Workers == {"w1", "w2"}
Sessions == Replicas \cup Workers
NoSession == "none"
NoReplica == "none"

Relations == {"documents", "analyses", "idx_analyses_document_id"}

\* File names are (stem, extension) pairs: "a.txt" is [stem |-> "a", ext |-> "txt"].
FileName(stem, ext) == [stem |-> stem, ext |-> ext]
Names == << FileName("a", "txt"), FileName("b", "txt") >>
NameSet == {Names[i] : i \in 1..Len(Names)}
Contents == {"X", "Y"}
UploadContents == {"U"}
\* What a directory entry holds: nothing, bytes that are not UTF-8, or text.
Kinds == {"absent", "bad"} \cup Contents

\* TEXT_DIR: exists (and is a directory) or not, and what each name holds.
NoDir == [exists |-> FALSE, files |-> [n \in NameSet |-> "absent"]]
Dirs == {NoDir} \cup {[exists |-> TRUE, files |-> f] : f \in [NameSet -> Kinds]}

NoSeq == [exists |-> FALSE, last |-> 0, called |-> FALSE]
NoTx == [open |-> FALSE, ddl |-> {}, ins |-> {}, upd |-> {}, del |-> {}]
\* The bytes of an uploaded file: the UTF-8 encoding of a text, or bytes that
\* are no UTF-8 encoding of anything.
Utf8(text) == [utf8 |-> TRUE, text |-> text]
BadBytes == [utf8 |-> FALSE, text |-> "?"]
UploadTexts == UploadContents \cup {"V"}
Payloads == {Utf8(c) : c \in UploadTexts} \cup {BadBytes}
\* The optional form field "filename" of an upload, and the name of the file part.
NoName == FileName("", "")
FormNames == {NoName, FileName("a", "txt"), FileName("a", "TXT"), FileName("a", "md")}
OrigNames == NameSet \cup {FileName("a", "md")}
\* A response without a document in it.
NoBody == [id |-> 0, filename |-> NoName, content |-> "", files |-> {}, result |-> << >>]
NoThread == "none"
Threads == {"t1", "t2", "t3"}
NoReq == [op |-> "none", next_id |-> 0, base |-> Names[1], candidate |-> Names[1],
          suffix |-> 0, content |-> "X", doc_id |-> 0]

VARIABLES
    dir,        \* the corpus directory TEXT_DIR
    engine,     \* per replica: db_loader._engine has been set (set_engine was called)
    schema,     \* committed relations of the database
    docs,       \* committed rows of documents: [id, filename, content]
    anas,       \* committed rows of analyses: [document_id, result]
    seq,        \* the sequence documents_id_seq: [exists, last, called]
    advLock,    \* the session holding advisory lock DB_INIT_ADVISORY_LOCK_KEY
    tx,         \* per session: the open transaction's uncommitted writes
    bpc,        \* per replica: where its startup bootstrap stands
    bidx,       \* per replica: index of the next corpus file of the load loop
    bmax,       \* per replica: max_id read by _set_documents_sequence
    bwrites,    \* per replica: DDL, upsert and setval statements issued by its invocation
    blog,       \* per replica: the statements of its invocation after the lock, in order
    berr,       \* per replica: the exception its invocation raised to the caller
    pre,        \* per replica: the committed store when its invocation tried the lock
    restarts,   \* process restarts so far
    wpc,        \* per request worker: where its request stands
    wrep,       \* per request worker: the replica serving the request
    wreq,       \* per request worker: the request's local variables
    wres,       \* per request worker: status of its last response
    wbody,      \* per request worker: body of its last response
    nreq,       \* requests accepted so far
    hpc,        \* sequence-repair scenario: where it stands ("off" when not run)
    hnew,       \* sequence-repair scenario: the id the generator assigned
    dbUp,       \* the database accepts connections
    npc,        \* per thread: where its call of get_nlp stands
    nlock,      \* the thread holding nlp_lock
    nmodel,     \* the global nlp_model (0 is None, n is the object of the n-th load)
    nloads,     \* executions of spacy.load in this process
    ngot,       \* per thread: what its last call of get_nlp returned
    ncalls      \* calls of get_nlp so far

vars == << dir, engine, schema, docs, anas, seq, advLock, tx, bpc, bidx, bmax, bwrites,
           blog, berr, pre, restarts, wpc, wrep, wreq, wres, wbody, nreq, hpc, hnew,
           dbUp, npc, nlock, nmodel, nloads, ngot, ncalls >>

serverVars == << schema, docs, seq, advLock, tx >>
bootVars == << bpc, bidx, bmax, bwrites, blog, berr, pre >>
workerVars == << wpc, wrep, wreq, wres, wbody, nreq >>
harnessVars == << hpc, hnew >>
nlpVars == << npc, nlock, nmodel, nloads, ngot, ncalls >>
procVars == << dbUp, nlpVars >>

\* The process before any request: the database is up, no model is loaded.
ProcInit ==
    /\ dbUp = TRUE
    /\ npc = [t \in Threads |-> "idle"]
    /\ nlock = NoThread
    /\ nmodel = 0
    /\ nloads = 0
    /\ ngot = [t \in Threads |-> 0]
    /\ ncalls = 0

\* ------------------------------------------------------ database semantics

Ids(rows) == {d.id : d \in rows}
FileNames(rows) == {d.filename : d \in rows}

\* What session s sees: the committed rows overlaid with its own writes.
View(s) ==
    {d \in docs : d.id \notin tx[s].del /\ d.id \notin Ids(tx[s].upd)}
        \cup tx[s].ins \cup tx[s].upd

VisibleSchema(s) == schema \cup tx[s].ddl

\* SELECT COALESCE(MAX(id), 0) FROM documents
MaxIdOf(rows) ==
    IF rows = {} THEN 0
    ELSE CHOOSE m \in Ids(rows) : \A i \in Ids(rows) : i <= m

\* Mutant: the repair reads the number of rows instead of the largest id.
M_RepairTarget_CountsRows(rows) == Cardinality(rows)

\* max_id = max_id_row[0] if max_id_row and max_id_row[0] is not None else 0
RepairTarget(rows) == MaxIdOf(rows)

\* nextval: the value the sequence hands out next.
NextVal(q) == IF q.called THEN q.last + 1 ELSE q.last
AfterNextVal(q) == [q EXCEPT !.last = NextVal(q), !.called = TRUE]

\* setval(seq, v, true) raises "value out of bounds" below the minimum value.
SetValRaises(v) == v < SeqMinValue
AfterSetVal(q, v) == [q EXCEPT !.last = v, !.called = TRUE]

\* Mutant: the lock is granted to every caller.
M_TryAdvisoryLock_AlwaysGranted(s) == TRUE

\* pg_try_advisory_lock(k): granted when no other session holds the lock.
TryAdvisoryLock(s) == advLock = NoSession \/ advLock = s

OtherOpen(s) == {t \in Sessions \ {s} : tx[t].open}
\* Uncommitted writes of the other sessions, on which a conflicting write waits.
OthersIns(s) == UNION {tx[t].ins : t \in OtherOpen(s)}
OthersUpd(s) == UNION {tx[t].upd : t \in OtherOpen(s)}
OthersDel(s) == UNION {tx[t].del : t \in OtherOpen(s)}
OthersDdl(s) == UNION {tx[t].ddl : t \in OtherOpen(s)}

\* An insert of (id, filename) waits for another session's uncommitted row
\* with the same key, and for an uncommitted delete of a row with that key.
InsertWaits(s, id, fn) ==
    \/ \E d \in OthersIns(s) : d.id = id \/ d.filename = fn
    \/ \E d \in docs : (d.id = id \/ d.filename = fn)
                        /\ d.id \in (OthersDel(s) \cup Ids(OthersUpd(s)))

\* An update or delete of row id waits for another session's write of it.
RowWaits(s, id) == id \in (OthersDel(s) \cup Ids(OthersUpd(s)))

\* End of a transaction: COMMIT publishes the writes, ROLLBACK drops them.
\* A sequence created by the transaction's CREATE TABLE goes with the table.
Committed(s) ==
    /\ docs' = View(s)
    /\ schema' = VisibleSchema(s)
    /\ tx' = [tx EXCEPT ![s] = NoTx]

\* Mutant: the writes of a failed transaction are kept.
M_RolledBack_KeepsWrites(s) ==
    /\ Committed(s)
    /\ UNCHANGED seq

RolledBack(s) ==
    /\ tx' = [tx EXCEPT ![s] = NoTx]
    /\ seq' = IF "documents" \in tx[s].ddl THEN NoSeq ELSE seq
    /\ UNCHANGED << docs, schema >>

\* ------------------------------------------------------------ the corpus

IsTxt(fn) == fn.ext = "txt"

\* Mutant: the listing misses the last file of the directory.
M_SortedTxt_DropsLast(d) ==
    LET all == SelectSeq(Names, LAMBDA n : IsTxt(n) /\ d.files[n] # "absent")
    IN IF all = << >> THEN all ELSE SubSeq(all, 1, Len(all) - 1)

\* sorted(TEXT_DIR.glob("*.txt"))
SortedTxt(d) ==
    SelectSeq(Names, LAMBDA n : IsTxt(n) /\ d.files[n] # "absent")

\* Mutant: undecodable bytes are read as text instead of being skipped.
M_Decodable_AcceptsAnyBytes(kind) == kind # "absent"

\* file.open("r", encoding="utf-8").read() succeeds; else UnicodeDecodeError, continue
Decodable(kind) == kind \in Contents

\* ------------------------------------------- load_txt_files_to_db (db_loader)

WritePath == {"ddl_documents", "ddl_analyses", "ddl_index", "load",
              "repair_read", "repair_set", "commit"}
Finished == {"returned", "skipped", "raised"}

\* What any session reads of the committed store.  A sequence created by an
\* uncommitted CREATE TABLE is not visible yet.
ObservableSeq == IF "documents" \in schema THEN seq ELSE NoSeq
Snapshot == [schema |-> schema, docs |-> docs, seq |-> ObservableSeq]

\* Mutant: the engine check is missing and a session is opened anyway.
M_EngineMissing_NeverChecked(r) == FALSE

\* if _engine is None
EngineMissing(r) == ~engine[r]

\* if _engine is None: raise RuntimeError; async with _engine.begin() as conn
BootBegin(r) ==
    /\ bpc[r] = "start"
    /\ IF EngineMissing(r)
       THEN /\ bpc' = [bpc EXCEPT ![r] = "raised"]
            /\ berr' = [berr EXCEPT ![r] = "engine not set"]
            /\ UNCHANGED tx
       ELSE /\ bpc' = [bpc EXCEPT ![r] = "lock"]
            /\ berr' = [berr EXCEPT ![r] = "none"]
            /\ tx' = [tx EXCEPT ![r] = [NoTx EXCEPT !.open = TRUE]]
    /\ bidx' = [bidx EXCEPT ![r] = 1]
    /\ bmax' = [bmax EXCEPT ![r] = 0]
    /\ bwrites' = [bwrites EXCEPT ![r] = 0]
    /\ blog' = [blog EXCEPT ![r] = << >>]
    /\ UNCHANGED << dir, procVars, engine, anas, harnessVars, schema, docs, seq, advLock, pre, restarts, workerVars >>

\* Mutant: the result of the lock attempt is ignored.
M_Locked_IgnoresResult(granted) == TRUE

\* locked = bool(locked_row[0]) if locked_row and locked_row[0] is not None else False
Locked(granted) == granted

\* Mutant: pg_advisory_lock, the call waits until the lock is granted.
M_BootTryLock_WaitsForLock(r) ==
    /\ bpc[r] = "lock"
    /\ TryAdvisoryLock(r)
    /\ advLock' = r
    /\ bpc' = [bpc EXCEPT ![r] = "ddl_documents"]
    /\ pre' = [pre EXCEPT ![r] = Snapshot]
    /\ UNCHANGED << dir, procVars, engine, anas, harnessVars, schema, docs, seq, tx, bidx, bmax,
                    bwrites, blog, berr, restarts, workerVars >>

\* SELECT pg_try_advisory_lock(:k); if not locked: return
BootTryLock(r) ==
    /\ bpc[r] = "lock"
    /\ LET granted == TryAdvisoryLock(r) IN
       /\ advLock' = IF granted THEN r ELSE advLock
       /\ IF Locked(granted)
          THEN /\ bpc' = [bpc EXCEPT ![r] = "ddl_documents"]
               /\ UNCHANGED << schema, docs, seq, tx >>
          ELSE /\ bpc' = [bpc EXCEPT ![r] = "skipped"]
               /\ Committed(r)
               /\ UNCHANGED seq
    /\ pre' = [pre EXCEPT ![r] = Snapshot]
    /\ UNCHANGED << dir, procVars, engine, anas, harnessVars, bidx, bmax, bwrites, blog, berr, restarts, workerVars >>

DdlRelation(pc) ==
    CASE pc = "ddl_documents" -> "documents"
      [] pc = "ddl_analyses" -> "analyses"
      [] OTHER -> "idx_analyses_document_id"

\* Mutant: the corpus is loaded right after the first CREATE TABLE.
M_DdlNext_LoadsBeforeTables(pc) ==
    CASE pc = "ddl_documents" -> "load"
      [] pc = "ddl_analyses" -> "ddl_index"
      [] OTHER -> "load"

DdlNext(pc) ==
    CASE pc = "ddl_documents" -> "ddl_analyses"
      [] pc = "ddl_analyses" -> "ddl_index"
      [] OTHER -> "load"

\* The relation a CREATE statement refers to and needs to exist.
DdlRequires(rel) ==
    CASE rel = "documents" -> {}
      [] rel = "analyses" -> {"documents"}
      [] OTHER -> {"analyses"}

\* Rollback on an exception leaving the "async with" block; the caller sees it.
BootRaised(r, err) ==
    /\ RolledBack(r)
    /\ bpc' = [bpc EXCEPT ![r] = "raised"]
    /\ berr' = [berr EXCEPT ![r] = err]

\* CREATE TABLE IF NOT EXISTS documents / analyses; CREATE INDEX IF NOT EXISTS
BootDdl(r) ==
    /\ bpc[r] \in {"ddl_documents", "ddl_analyses", "ddl_index"}
    /\ LET rel == DdlRelation(bpc[r]) IN
       /\ rel \notin OthersDdl(r)
       /\ IF ~(DdlRequires(rel) \subseteq VisibleSchema(r))
          THEN /\ BootRaised(r, "undefined table")
               /\ UNCHANGED << advLock, bwrites, blog >>
          ELSE /\ tx' = [tx EXCEPT ![r].ddl =
                           IF rel \in VisibleSchema(r) THEN @ ELSE @ \cup {rel}]
               /\ seq' = IF rel = "documents" /\ rel \notin VisibleSchema(r)
                         THEN [exists |-> TRUE, last |-> SeqStart, called |-> FALSE]
                         ELSE seq
               /\ bpc' = [bpc EXCEPT ![r] = DdlNext(bpc[r])]
               /\ bwrites' = [bwrites EXCEPT ![r] = @ + 1]
               /\ blog' = [blog EXCEPT ![r] = Append(@, "ddl")]
               /\ UNCHANGED << schema, docs, advLock, berr >>
    /\ UNCHANGED << dir, procVars, engine, anas, harnessVars, bidx, bmax, pre, restarts, workerVars >>

\* The row an upsert of (fn, content) by session s leaves, with id from nextval.
UpsertTarget(s, fn) == CHOOSE d \in View(s) : d.filename = fn

\* Mutant: a conflicting row is replaced by a new row with a new id.
M_UpsertWrites_ReplacesRow(s, fn, content) ==
    LET new == [id |-> NextVal(seq), filename |-> fn, content |-> content] IN
    IF fn \in FileNames(View(s))
    THEN LET old == UpsertTarget(s, fn) IN
         [tx[s] EXCEPT !.del = @ \cup {old.id}, !.ins = (@ \ {old}) \cup {new}]
    ELSE [tx[s] EXCEPT !.ins = @ \cup {new}]

\* Mutant: a plain INSERT, every load adds a row.
M_UpsertWrites_AlwaysInserts(s, fn, content) ==
    [tx[s] EXCEPT !.ins = @ \cup
        {[id |-> NextVal(seq), filename |-> fn, content |-> content]}]

\* Mutant: ON CONFLICT DO NOTHING, the stored content is kept.
M_UpsertWrites_KeepsContent(s, fn, content) ==
    IF fn \in FileNames(View(s))
    THEN tx[s]
    ELSE [tx[s] EXCEPT !.ins = @ \cup
            {[id |-> NextVal(seq), filename |-> fn, content |-> content]}]

\* INSERT INTO documents (filename, content) ... ON CONFLICT (filename) DO UPDATE
UpsertWrites(s, fn, content) ==
    IF fn \in FileNames(View(s))
    THEN LET old == UpsertTarget(s, fn)
             new == [old EXCEPT !.content = content]
         IN IF old \in tx[s].ins
            THEN [tx[s] EXCEPT !.ins = (@ \ {old}) \cup {new}]
            ELSE [tx[s] EXCEPT !.upd = {u \in @ : u.id # old.id} \cup {new}]
    ELSE [tx[s] EXCEPT !.ins = @ \cup
            {[id |-> NextVal(seq), filename |-> fn, content |-> content]}]

\* The primary key of a new row collides with a row the session sees.
UpsertRaises(s, fn) ==
    /\ fn \notin FileNames(View(s))
    /\ NextVal(seq) \in Ids(View(s))

UpsertWaits(s, fn) ==
    IF fn \in FileNames(docs)
    THEN RowWaits(s, (CHOOSE d \in docs : d.filename = fn).id)
    ELSE InsertWaits(s, NextVal(seq), fn)

\* One iteration of: for file in sorted(TEXT_DIR.glob("*.txt"))
BootLoadFile(r) ==
    /\ bpc[r] = "load"
    /\ dir.exists
    /\ bidx[r] <= Len(SortedTxt(dir))
    /\ LET fn == SortedTxt(dir)[bidx[r]]
           kind == dir.files[fn]
       IN IF ~Decodable(kind)
          THEN /\ bidx' = [bidx EXCEPT ![r] = @ + 1]
               /\ UNCHANGED << serverVars, bpc, bwrites, blog, berr >>
          ELSE /\ NextVal(seq) <= MaxId
               /\ ~UpsertWaits(r, fn)
               /\ IF UpsertRaises(r, fn)
                  THEN /\ BootRaised(r, "unique violation")
                       /\ UNCHANGED << advLock, bidx, bwrites, blog >>
                  ELSE /\ tx' = [tx EXCEPT ![r] = UpsertWrites(r, fn, kind)]
                       /\ seq' = AfterNextVal(seq)
                       /\ bidx' = [bidx EXCEPT ![r] = @ + 1]
                       /\ bwrites' = [bwrites EXCEPT ![r] = @ + 1]
                       /\ blog' = [blog EXCEPT ![r] = Append(@, "upsert")]
                       /\ UNCHANGED << schema, docs, advLock, bpc, berr >>
    /\ UNCHANGED << dir, procVars, engine, anas, harnessVars, bmax, pre, restarts, workerVars >>

\* Mutant: the loaded corpus is committed before the sequence repair.
M_BootLoadDone_CommitsEarly(r) ==
    /\ bpc[r] = "load"
    /\ ~dir.exists \/ bidx[r] > Len(SortedTxt(dir))
    /\ bpc' = [bpc EXCEPT ![r] = "repair_read"]
    /\ docs' = View(r)
    /\ schema' = VisibleSchema(r)
    /\ tx' = [tx EXCEPT ![r] = [NoTx EXCEPT !.open = TRUE]]
    /\ UNCHANGED << dir, procVars, engine, anas, harnessVars, seq, advLock, bidx, bmax, bwrites, blog, berr, pre, restarts, workerVars >>

\* The directory is missing or not a directory, or the loop is over.
BootLoadDone(r) ==
    /\ bpc[r] = "load"
    /\ ~dir.exists \/ bidx[r] > Len(SortedTxt(dir))
    /\ bpc' = [bpc EXCEPT ![r] = "repair_read"]
    /\ UNCHANGED << dir, procVars, engine, anas, harnessVars, serverVars, bidx, bmax, bwrites, blog, berr, pre, restarts, workerVars >>

\* _set_documents_sequence: SELECT COALESCE(MAX(id), 0) FROM documents
BootRepairRead(r) ==
    /\ bpc[r] = "repair_read"
    /\ bmax' = [bmax EXCEPT ![r] = RepairTarget(View(r))]
    /\ bpc' = [bpc EXCEPT ![r] = "repair_set"]
    /\ blog' = [blog EXCEPT ![r] = Append(@, "read_max")]
    /\ UNCHANGED << dir, procVars, engine, anas, harnessVars, serverVars, bidx, bwrites, berr, pre, restarts, workerVars >>

\* _set_documents_sequence: SELECT setval(..., :val, true)
BootRepairSet(r) ==
    /\ bpc[r] = "repair_set"
    /\ IF SetValRaises(bmax[r])
       THEN /\ BootRaised(r, "setval out of bounds")
            /\ UNCHANGED << advLock, bwrites, blog >>
       ELSE /\ seq' = AfterSetVal(seq, bmax[r])
            /\ bpc' = [bpc EXCEPT ![r] = "commit"]
            /\ bwrites' = [bwrites EXCEPT ![r] = @ + 1]
            /\ blog' = [blog EXCEPT ![r] = Append(@, "setval")]
            /\ UNCHANGED << schema, docs, advLock, tx, berr >>
    /\ UNCHANGED << dir, procVars, engine, anas, harnessVars, bidx, bmax, pre, restarts, workerVars >>

\* Leaving "async with _engine.begin()" normally commits.
BootCommit(r) ==
    /\ bpc[r] = "commit"
    /\ Committed(r)
    /\ bpc' = [bpc EXCEPT ![r] = "returned"]
    /\ UNCHANGED << dir, procVars, engine, anas, harnessVars, seq, advLock, bidx, bmax, bwrites, blog, berr, pre, restarts, workerVars >>

\* A statement of the write path fails in the database (any DDL/DML error).
BootFail(r) ==
    /\ bpc[r] \in WritePath \ {"commit"}
    /\ BootRaised(r, "database error")
    /\ UNCHANGED << dir, procVars, engine, anas, harnessVars, advLock, bidx, bmax, bwrites, blog, pre, restarts, workerVars >>

\* The replica's process exits and is started again: its connections close,
\* which ends their sessions (open transactions roll back, the advisory lock
\* is released), and startup_event runs again.
Restart(r) ==
    /\ restarts < MaxRestarts
    /\ restarts' = restarts + 1
    /\ LET gone == {r} \cup {w \in Workers : wrep[w] = r /\ wpc[w] # "idle"} IN
       /\ tx' = [s \in Sessions |-> IF s \in gone THEN NoTx ELSE tx[s]]
       /\ seq' = IF \E s \in gone : "documents" \in tx[s].ddl THEN NoSeq ELSE seq
       /\ advLock' = IF advLock \in gone THEN NoSession ELSE advLock
       /\ wpc' = [w \in Workers |-> IF w \in gone THEN "idle" ELSE wpc[w]]
       /\ wreq' = [w \in Workers |-> IF w \in gone THEN NoReq ELSE wreq[w]]
       /\ wrep' = [w \in Workers |-> IF w \in gone THEN NoReplica ELSE wrep[w]]
    /\ bpc' = [bpc EXCEPT ![r] = "start"]
    /\ UNCHANGED << dir, procVars, engine, anas, harnessVars, schema, docs, bidx, bmax, bwrites, blog, berr, pre, wres, wbody, nreq >>

Bootstrap(r) ==
    \/ BootBegin(r)
    \/ BootTryLock(r)
    \/ BootDdl(r)
    \/ BootLoadFile(r)
    \/ BootLoadDone(r)
    \/ BootRepairRead(r)
    \/ BootRepairSet(r)
    \/ BootCommit(r)

\* --------------------------------------------------- request handlers (main)

\* Mutant: only the RuntimeError of the missing engine is caught.
M_StartupCatches_OnlyRuntimeError(err) == err = "engine not set"

\* startup_event: except Exception (every error the bootstrap raises is one)
StartupCatches(err) ==
    err \in {"engine not set", "undefined table", "unique violation",
             "setval out of bounds", "database error"}

\* A replica serves requests once startup_event is over, whatever the outcome.
Serving(r) ==
    \/ bpc[r] \in {"returned", "skipped"}
    \/ bpc[r] = "raised" /\ StartupCatches(berr[r])

\* Request workers are interchangeable: the next request goes to one fixed idle worker.
TakesRequest(w) == wpc[w] = "idle" /\ w = (CHOOSE v \in Workers : wpc[v] = "idle")

\* The error response of a handler whose transaction block raised.
Responded(w, code) ==
    /\ wpc' = [wpc EXCEPT ![w] = "idle"]
    /\ wreq' = [wreq EXCEPT ![w] = NoReq]
    /\ wrep' = [wrep EXCEPT ![w] = NoReplica]
    /\ wres' = [wres EXCEPT ![w] = code]
    /\ wbody' = [wbody EXCEPT ![w] = NoBody]

\* Mutant: the first new name tried carries the suffix 2.
M_Renamed_SkipsOne(base, suffix) == FileName(base.stem \o "_" \o ToString(suffix + 1), "txt")

\* f"{Path(base_name).stem}_{suffix}.txt"
Renamed(base, suffix) == FileName(base.stem \o "_" \o ToString(suffix), "txt")

\* A handler's response with a body.
RespondedWith(w, code, body) ==
    /\ wpc' = [wpc EXCEPT ![w] = "idle"]
    /\ wreq' = [wreq EXCEPT ![w] = NoReq]
    /\ wrep' = [wrep EXCEPT ![w] = NoReplica]
    /\ wres' = [wres EXCEPT ![w] = code]
    /\ wbody' = [wbody EXCEPT ![w] = body]

\* str.lower() on the extensions of the model
Lower(ext) == IF ext = "TXT" THEN "txt" ELSE ext

\* name.lower().endswith(".txt")
EndsWithTxt(name) == Lower(name.ext) = "txt"

\* if filename: if not filename.lower().endswith(".txt"): raise HTTPException(400)
FormRejected(form) == form # NoName /\ ~EndsWithTxt(form)

\* safe_filename: the form filename when given, else the file part's name,
\* with ".txt" appended when it does not end in it
SafeFilename(form, orig) ==
    IF form # NoName THEN form
    ELSE IF EndsWithTxt(orig) THEN orig
    ELSE FileName(orig.stem \o "." \o orig.ext, "txt")

\* Mutant: bytes that are not UTF-8 are decoded leniently instead of raising.
M_Utf8Valid_AcceptsAnyBytes(bytes) == TRUE

\* content_bytes.decode("utf-8") succeeds; else UnicodeDecodeError -> 400
Utf8Valid(bytes) == bytes.utf8

\* content_str = content_bytes.decode("utf-8")
Utf8Decode(bytes) == bytes.text

\* Mutant: the next id is one more than the number of rows.
M_NextId_CountsRows(rows) == Cardinality(rows) + 1

\* next_id = (max_id_row[0] if max_id_row and max_id_row[0] is not None else 0) + 1
NextId(rows) == MaxIdOf(rows) + 1

\* upload_text: the filename and encoding checks, then
\* async with engine.begin(); SELECT COALESCE(MAX(id), 0); next_id
UploadBegin(w, r, form, orig, bytes) ==
    /\ TakesRequest(w)
    /\ Serving(r)
    /\ nreq < MaxRequests
    /\ nreq' = nreq + 1
    /\ IF FormRejected(form) \/ ~Utf8Valid(bytes)
       THEN /\ Responded(w, 400)
            /\ UNCHANGED tx
       ELSE IF "documents" \notin schema
       THEN /\ Responded(w, 500)
            /\ UNCHANGED tx
       ELSE /\ NextId(docs) <= MaxId
            /\ tx' = [tx EXCEPT ![w] = [NoTx EXCEPT !.open = TRUE]]
            /\ wpc' = [wpc EXCEPT ![w] = "u_check"]
            /\ wrep' = [wrep EXCEPT ![w] = r]
            /\ wreq' = [wreq EXCEPT ![w] =
                          [NoReq EXCEPT !.op = "upload",
                                        !.next_id = NextId(docs),
                                        !.base = SafeFilename(form, orig),
                                        !.candidate = SafeFilename(form, orig),
                                        !.content = Utf8Decode(bytes)]]
            /\ UNCHANGED << wres, wbody >>
    /\ UNCHANGED << dir, procVars, engine, anas, harnessVars, schema, docs, seq, advLock, bootVars, restarts >>

\* One iteration of the collision loop: SELECT 1 FROM documents WHERE filename = :fn
UploadCheck(w) ==
    /\ wpc[w] = "u_check"
    /\ IF wreq[w].candidate \in FileNames(View(w))
       THEN /\ wreq' = [wreq EXCEPT ![w].suffix = @ + 1,
                                    ![w].candidate = Renamed(wreq[w].base, wreq[w].suffix + 1)]
            /\ UNCHANGED wpc
       ELSE /\ wpc' = [wpc EXCEPT ![w] = "u_insert"]
            /\ UNCHANGED wreq
    /\ UNCHANGED << dir, procVars, engine, anas, harnessVars, serverVars, bootVars, restarts, wrep, wres, wbody, nreq >>

\* Mutant: documents has no primary key; only the filename is unique.
M_UniqueViolation_FilenameOnly(rows, id, fn) == \E d \in rows : d.filename = fn

\* id SERIAL PRIMARY KEY, filename TEXT UNIQUE: a row with the id or the filename exists
UniqueViolation(rows, id, fn) == \E d \in rows : d.id = id \/ d.filename = fn

\* INSERT INTO documents (id, filename, content) VALUES (:id, :filename, :content)
UploadInsert(w) ==
    /\ wpc[w] = "u_insert"
    /\ ~InsertWaits(w, wreq[w].next_id, wreq[w].candidate)
    /\ IF UniqueViolation(View(w), wreq[w].next_id, wreq[w].candidate)
       THEN /\ RolledBack(w)
            /\ Responded(w, 500)
       ELSE /\ tx' = [tx EXCEPT ![w].ins = @ \cup
                        {[id |-> wreq[w].next_id, filename |-> wreq[w].candidate,
                          content |-> wreq[w].content]}]
            /\ wpc' = [wpc EXCEPT ![w] = "u_setval"]
            /\ UNCHANGED << schema, docs, seq, wrep, wreq, wres, wbody >>
    /\ UNCHANGED << dir, procVars, engine, anas, harnessVars, advLock, bootVars, restarts, nreq >>

\* SELECT setval(pg_get_serial_sequence('documents','id'), :val, true)
UploadSetval(w) ==
    /\ wpc[w] = "u_setval"
    /\ seq' = AfterSetVal(seq, wreq[w].next_id)
    /\ wpc' = [wpc EXCEPT ![w] = "u_commit"]
    /\ UNCHANGED << dir, procVars, engine, anas, harnessVars, schema, docs, advLock, tx, bootVars, restarts,
                    wrep, wreq, wres, wbody, nreq >>

\* Leaving the transaction block commits;
\* return {"id": next_id, "filename": stored_filename} (201)
UploadCommit(w) ==
    /\ wpc[w] = "u_commit"
    /\ Committed(w)
    /\ RespondedWith(w, 201, [NoBody EXCEPT !.id = wreq[w].next_id,
                                            !.filename = wreq[w].candidate])
    /\ UNCHANGED << dir, procVars, engine, anas, harnessVars, seq, advLock, bootVars, restarts, nreq >>

\* delete_text: SELECT filename FROM documents WHERE id = :id; 404 when absent
DeleteBegin(w, r, id) ==
    /\ TakesRequest(w)
    /\ Serving(r)
    /\ nreq < MaxRequests
    /\ nreq' = nreq + 1
    /\ IF "documents" \notin schema
       THEN Responded(w, 500)
       ELSE IF id \notin Ids(docs)
       THEN Responded(w, 404)
       ELSE /\ wpc' = [wpc EXCEPT ![w] = "d_delete"]
            /\ wrep' = [wrep EXCEPT ![w] = r]
            /\ wreq' = [wreq EXCEPT ![w] = [NoReq EXCEPT !.op = "delete", !.doc_id = id]]
            /\ UNCHANGED << wres, wbody >>
    /\ tx' = [tx EXCEPT ![w] = [NoTx EXCEPT !.open = (wpc'[w] = "d_delete")]]
    /\ UNCHANGED << dir, procVars, engine, anas, harnessVars, schema, docs, seq, advLock, bootVars, restarts >>

\* DELETE FROM documents WHERE id = :id
DeleteRow(w) ==
    /\ wpc[w] = "d_delete"
    /\ ~RowWaits(w, wreq[w].doc_id)
    /\ tx' = [tx EXCEPT ![w].del = @ \cup ({wreq[w].doc_id} \cap Ids(docs))]
    /\ wpc' = [wpc EXCEPT ![w] = "d_commit"]
    /\ UNCHANGED << dir, procVars, engine, anas, harnessVars, schema, docs, seq, advLock, bootVars, restarts,
                    wrep, wreq, wres, wbody, nreq >>

\* Mutant: the foreign key has no ON DELETE CASCADE action.
M_Cascade_KeepsAnalyses(rows, deleted) == rows

\* document_id INTEGER UNIQUE REFERENCES documents(id) ON DELETE CASCADE
Cascade(rows, deleted) == {a \in rows : a.document_id \notin deleted}

\* Leaving the transaction block commits; 200
DeleteCommit(w) ==
    /\ wpc[w] = "d_commit"
    /\ Committed(w)
    /\ anas' = Cascade(anas, tx[w].del)
    /\ Responded(w, 200)
    /\ UNCHANGED << dir, procVars, engine, harnessVars, seq, advLock, bootVars, restarts, nreq >>

\* run_nlp_analysis(content): the analysis is a function of the text analysed.
Analysis(content) == << "nlp", content >>

\* An insert into analyses waits for an uncommitted delete of the document it references.
FkWaits(s, id) == id \in OthersDel(s)

\* Mutant: a plain INSERT into a table without the UNIQUE constraint.
M_AnalysisUpsert_AddsRow(rows, id, result) ==
    rows \cup {[document_id |-> id, result |-> result]}

\* INSERT INTO analyses ... ON CONFLICT (document_id) DO UPDATE SET ...
AnalysisUpsert(rows, id, result) ==
    {a \in rows : a.document_id # id} \cup {[document_id |-> id, result |-> result]}

\* analyze_and_store: SELECT content FROM documents WHERE id = :id; 404 when absent
AnalyzeBegin(w, r, id) ==
    /\ TakesRequest(w)
    /\ Serving(r)
    /\ nreq < MaxRequests
    /\ nreq' = nreq + 1
    /\ IF "documents" \notin schema
       THEN Responded(w, 500)
       ELSE IF id \notin Ids(docs)
       THEN Responded(w, 404)
       ELSE /\ wpc' = [wpc EXCEPT ![w] = "a_store"]
            /\ wrep' = [wrep EXCEPT ![w] = r]
            /\ wreq' = [wreq EXCEPT ![w] =
                          [NoReq EXCEPT !.op = "analyze", !.doc_id = id,
                                        !.content = (CHOOSE d \in docs : d.id = id).content]]
            /\ UNCHANGED << wres, wbody >>
    /\ UNCHANGED << dir, procVars, engine, anas, harnessVars, serverVars, bootVars, restarts >>

\* Mutant: analyses.document_id is a plain column without a foreign key.
M_FkViolated_NoConstraint(rows, id) == FALSE

\* document_id INTEGER UNIQUE REFERENCES documents(id): the referenced row must exist
FkViolated(rows, id) == id \notin Ids(rows)

\* analyze_and_store: run_nlp_analysis, then the upsert in a transaction of its own
AnalyzeStore(w) ==
    /\ wpc[w] = "a_store"
    /\ ~FkWaits(w, wreq[w].doc_id)
    /\ \E analysed \in BOOLEAN :
          IF ~analysed \/ FkViolated(docs, wreq[w].doc_id)
          THEN /\ Responded(w, 500)
               /\ UNCHANGED anas
          ELSE /\ anas' = AnalysisUpsert(anas, wreq[w].doc_id, Analysis(wreq[w].content))
               /\ Responded(w, 200)
    /\ UNCHANGED << dir, procVars, engine, harnessVars, serverVars, bootVars, restarts, nreq >>

\* get_analysis: the request arrives
GetAnalysisBegin(w, r, id) ==
    /\ TakesRequest(w)
    /\ Serving(r)
    /\ nreq < MaxRequests
    /\ nreq' = nreq + 1
    /\ wpc' = [wpc EXCEPT ![w] = "g_read"]
    /\ wrep' = [wrep EXCEPT ![w] = r]
    /\ wreq' = [wreq EXCEPT ![w] = [NoReq EXCEPT !.op = "get_analysis", !.doc_id = id]]
    /\ UNCHANGED << dir, procVars, engine, anas, harnessVars, serverVars, bootVars, restarts, wres, wbody >>

\* get_analysis: SELECT ... FROM analyses WHERE document_id = :id; 404 when absent
GetAnalysisRespond(w) ==
    /\ wpc[w] = "g_read"
    /\ Responded(w, IF "analyses" \notin schema THEN 500
                    ELSE IF \E a \in anas : a.document_id = wreq[w].doc_id THEN 200
                    ELSE 404)
    /\ UNCHANGED << dir, procVars, engine, anas, harnessVars, serverVars, bootVars, restarts, nreq >>

\* view_text: the request arrives
ViewBegin(w, r, id) ==
    /\ TakesRequest(w)
    /\ Serving(r)
    /\ nreq < MaxRequests
    /\ nreq' = nreq + 1
    /\ wpc' = [wpc EXCEPT ![w] = "v_read"]
    /\ wrep' = [wrep EXCEPT ![w] = r]
    /\ wreq' = [wreq EXCEPT ![w] = [NoReq EXCEPT !.op = "view", !.doc_id = id]]
    /\ UNCHANGED << dir, procVars, engine, anas, harnessVars, serverVars, bootVars, restarts, wres, wbody >>

\* Mutant: the document is looked up by position instead of by id.
M_FetchDocument_ByPosition(rows, id) == {d \in rows : d.id = Cardinality(rows) + 1 - id}

\* fetch_document: SELECT id, filename, content FROM documents WHERE id = :id
FetchDocument(rows, id) == {d \in rows : d.id = id}

\* view_text: 500 when the query raises, 404 when there is no row, else the row
ViewRespond(w) ==
    /\ wpc[w] = "v_read"
    /\ IF "documents" \notin schema THEN Responded(w, 500)
       ELSE IF FetchDocument(docs, wreq[w].doc_id) = {} THEN Responded(w, 404)
       ELSE LET row == CHOOSE d \in FetchDocument(docs, wreq[w].doc_id) : TRUE
            IN RespondedWith(w, 200, [NoBody EXCEPT !.id = row.id,
                                                     !.filename = row.filename,
                                                     !.content = row.content])
    /\ UNCHANGED << dir, procVars, engine, anas, harnessVars, serverVars, bootVars, restarts, nreq >>

\* list_txt_files: the request arrives
ListBegin(w, r) ==
    /\ TakesRequest(w)
    /\ Serving(r)
    /\ nreq < MaxRequests
    /\ nreq' = nreq + 1
    /\ wpc' = [wpc EXCEPT ![w] = "l_read"]
    /\ wrep' = [wrep EXCEPT ![w] = r]
    /\ wreq' = [wreq EXCEPT ![w] = [NoReq EXCEPT !.op = "list"]]
    /\ UNCHANGED << dir, procVars, engine, anas, harnessVars, serverVars, bootVars, restarts, wres, wbody >>

\* fetch_all_files: SELECT id, filename FROM documents ORDER BY id
FetchAllFiles(rows) == {[id |-> d.id, filename |-> d.filename] : d \in rows}

\* list_txt_files: the list of files, or 500 when the query raises
ListRespond(w) ==
    /\ wpc[w] = "l_read"
    /\ IF "documents" \notin schema THEN Responded(w, 500)
       ELSE RespondedWith(w, 200, [NoBody EXCEPT !.files = FetchAllFiles(docs)])
    /\ UNCHANGED << dir, procVars, engine, anas, harnessVars, serverVars, bootVars, restarts, nreq >>

\* analyze_file: SELECT content FROM documents WHERE id = :id; 404 when absent
TransientBegin(w, r, id) ==
    /\ TakesRequest(w)
    /\ Serving(r)
    /\ nreq < MaxRequests
    /\ nreq' = nreq + 1
    /\ IF "documents" \notin schema
       THEN Responded(w, 500)
       ELSE IF id \notin Ids(docs)
       THEN Responded(w, 404)
       ELSE /\ wpc' = [wpc EXCEPT ![w] = "t_analyse"]
            /\ wrep' = [wrep EXCEPT ![w] = r]
            /\ wreq' = [wreq EXCEPT ![w] =
                          [NoReq EXCEPT !.op = "analyze_file", !.doc_id = id,
                                        !.content = (CHOOSE d \in docs : d.id = id).content]]
            /\ UNCHANGED << wres, wbody >>
    /\ UNCHANGED << dir, procVars, engine, anas, harnessVars, serverVars, bootVars, restarts >>

\* Mutant: the transient analysis is written to analyses like a stored one.
M_TransientRespond_StoresResult(w) ==
    /\ wpc[w] = "t_analyse"
    /\ anas' = AnalysisUpsert(anas, wreq[w].doc_id, Analysis(wreq[w].content))
    /\ RespondedWith(w, 200, [NoBody EXCEPT !.result = Analysis(wreq[w].content)])
    /\ UNCHANGED << dir, procVars, engine, harnessVars, serverVars, bootVars, restarts, nreq >>

\* analyze_file: analysis = await run_nlp_analysis(row[0]); return analysis
TransientRespond(w) ==
    /\ wpc[w] = "t_analyse"
    /\ \E analysed \in BOOLEAN :
          IF analysed
          THEN RespondedWith(w, 200, [NoBody EXCEPT !.result = Analysis(wreq[w].content)])
          ELSE Responded(w, 500)
    /\ UNCHANGED << dir, procVars, engine, anas, harnessVars, serverVars, bootVars, restarts, nreq >>

\* delete_analysis: async with engine.begin();
\* SELECT 1 FROM analyses WHERE document_id = :id; 404 when absent
DeleteAnalysisBegin(w, r, id) ==
    /\ TakesRequest(w)
    /\ Serving(r)
    /\ nreq < MaxRequests
    /\ nreq' = nreq + 1
    /\ IF "analyses" \notin schema
       THEN Responded(w, 500)
       ELSE IF \A a \in anas : a.document_id # id
       THEN Responded(w, 404)
       ELSE /\ wpc' = [wpc EXCEPT ![w] = "x_delete"]
            /\ wrep' = [wrep EXCEPT ![w] = r]
            /\ wreq' = [wreq EXCEPT ![w] =
                          [NoReq EXCEPT !.op = "delete_analysis", !.doc_id = id]]
            /\ UNCHANGED << wres, wbody >>
    /\ tx' = [tx EXCEPT ![w] = [NoTx EXCEPT !.open = (wpc'[w] = "x_delete")]]
    /\ UNCHANGED << dir, procVars, engine, anas, harnessVars, schema, docs, seq, advLock, bootVars, restarts >>

\* A delete of an analysis row waits for an uncommitted delete of its
\* document, whose cascade has locked the row.
AnalysisRowWaits(s, id) == id \in OthersDel(s)

\* Mutant: the DELETE has no WHERE clause.
M_DeleteAnalysisRows_DeletesAll(rows, id) == {}

\* DELETE FROM analyses WHERE document_id = :id
DeleteAnalysisRows(rows, id) == {a \in rows : a.document_id # id}

\* delete_analysis: the DELETE, then leaving the transaction block commits; 200
DeleteAnalysisCommit(w) ==
    /\ wpc[w] = "x_delete"
    /\ ~AnalysisRowWaits(w, wreq[w].doc_id)
    /\ anas' = DeleteAnalysisRows(anas, wreq[w].doc_id)
    /\ tx' = [tx EXCEPT ![w] = NoTx]
    /\ Responded(w, 200)
    /\ UNCHANGED << dir, procVars, engine, harnessVars, schema, docs, seq, advLock, bootVars, restarts, nreq >>

AnalysisRequest(w) ==
    \/ \E r \in Replicas, id \in 1..MaxId : AnalyzeBegin(w, r, id)
    \/ AnalyzeStore(w)
    \/ \E r \in Replicas, id \in 1..MaxId : GetAnalysisBegin(w, r, id)
    \/ GetAnalysisRespond(w)
    \/ \E r \in Replicas, id \in 1..MaxId : DeleteBegin(w, r, id)
    \/ DeleteRow(w)
    \/ DeleteCommit(w)

Request(w) ==
    \/ \E r \in Replicas, orig \in NameSet, content \in UploadContents :
          UploadBegin(w, r, NoName, orig, Utf8(content))
    \/ UploadCheck(w)
    \/ UploadInsert(w)
    \/ UploadSetval(w)
    \/ UploadCommit(w)
    \/ \E r \in Replicas, id \in 1..MaxId : DeleteBegin(w, r, id)
    \/ DeleteRow(w)
    \/ DeleteCommit(w)

\* ------------------------------------------------------------ specification

Init ==
    /\ dir \in Dirs
    /\ engine = [r \in Replicas |-> TRUE]
    /\ schema = {}
    /\ docs = {}
    /\ anas = {}
    /\ seq = NoSeq
    /\ advLock = NoSession
    /\ tx = [s \in Sessions |-> NoTx]
    /\ bpc = [r \in Replicas |-> "start"]
    /\ bidx = [r \in Replicas |-> 1]
    /\ bmax = [r \in Replicas |-> 0]
    /\ bwrites = [r \in Replicas |-> 0]
    /\ blog = [r \in Replicas |-> << >>]
    /\ berr = [r \in Replicas |-> "none"]
    /\ pre = [r \in Replicas |-> [schema |-> {}, docs |-> {}, seq |-> NoSeq]]
    /\ restarts = 0
    /\ wpc = [w \in Workers |-> "idle"]
    /\ wrep = [w \in Workers |-> NoReplica]
    /\ wreq = [w \in Workers |-> NoReq]
    /\ wres = [w \in Workers |-> 0]
    /\ wbody = [w \in Workers |-> NoBody]
    /\ nreq = 0
    /\ hpc = "off"
    /\ hnew = 0
    /\ ProcInit

\* Replicas starting, failing and restarting; no client requests.
NextBoot ==
    \/ \E r \in Replicas : Bootstrap(r)
    \/ \E r \in Replicas : BootFail(r)
    \/ \E r \in Replicas : Restart(r)

SpecBoot == Init /\ [][NextBoot]_vars

\* The same, where an invocation that has reached the lock attempt goes on
\* running: its own statement is eventually executed.  Nothing is assumed of
\* the other replicas: the lock holder may stop for ever inside its transaction.
SpecBootFair == SpecBoot /\ \A r \in Replicas : WF_vars(BootTryLock(r))

\* The whole service: replicas starting and restarting, clients uploading and deleting.
Next ==
    \/ NextBoot
    \/ \E w \in Workers : Request(w)

Spec == Init /\ [][Next]_vars

\* A single-replica deployment: one process starts on an empty database and
\* then serves clients listing and viewing files.
Single == "r1"

NextSingle ==
    \/ Bootstrap(Single)
    \/ \E w \in Workers :
          \/ ListBegin(w, Single)
          \/ ListRespond(w)
          \/ \E id \in 1..MaxId : ViewBegin(w, Single, id)
          \/ ViewRespond(w)

SpecSingle == Init /\ [][NextSingle]_vars

\* ------------------------------------------------- db_loader used directly
\* db_loader as a module of its own: nothing has called set_engine yet, and
\* a caller may call load_txt_files_to_db before or after it does.

\* set_engine(engine): global _engine; _engine = engine
SetEngine(r) ==
    /\ ~engine[r]
    /\ engine' = [engine EXCEPT ![r] = TRUE]
    /\ UNCHANGED << dir, procVars, anas, harnessVars, serverVars, bootVars, restarts, workerVars >>

InitUsage ==
    /\ dir \in Dirs
    /\ engine = [r \in Replicas |-> FALSE]
    /\ schema = {}
    /\ docs = {}
    /\ anas = {}
    /\ seq = NoSeq
    /\ advLock = NoSession
    /\ tx = [s \in Sessions |-> NoTx]
    /\ bpc = [r \in Replicas |-> "start"]
    /\ bidx = [r \in Replicas |-> 1]
    /\ bmax = [r \in Replicas |-> 0]
    /\ bwrites = [r \in Replicas |-> 0]
    /\ blog = [r \in Replicas |-> << >>]
    /\ berr = [r \in Replicas |-> "none"]
    /\ pre = [r \in Replicas |-> [schema |-> {}, docs |-> {}, seq |-> NoSeq]]
    /\ restarts = 0
    /\ wpc = [w \in Workers |-> "idle"]
    /\ wrep = [w \in Workers |-> NoReplica]
    /\ wreq = [w \in Workers |-> NoReq]
    /\ wres = [w \in Workers |-> 0]
    /\ wbody = [w \in Workers |-> NoBody]
    /\ nreq = 0
    /\ hpc = "off"
    /\ hnew = 0
    /\ ProcInit

NextUsage ==
    \/ \E r \in Replicas : SetEngine(r)
    \/ \E r \in Replicas : Bootstrap(r)

SpecUsage == InitUsage /\ [][NextUsage]_vars

\* ------------------------------------------- documents and their analyses
\* The service after a reload: a.txt, analysed when it held "Y", now holds "X"
\* (its stored analysis is the old one); b.txt has never been analysed.
\* Clients analyse, read analyses and delete documents.

LoadedDocs(ca, cb) ==
    {[id |-> 1, filename |-> Names[1], content |-> ca],
     [id |-> 2, filename |-> Names[2], content |-> cb]}
LoadedSeq == [exists |-> TRUE, last |-> 2, called |-> TRUE]

InitAnalysis ==
    /\ dir = [exists |-> TRUE, files |-> [n \in NameSet |-> IF n = Names[1] THEN "X" ELSE "Y"]]
    /\ engine = [r \in Replicas |-> TRUE]
    /\ schema = Relations
    /\ docs = LoadedDocs("X", "Y")
    /\ anas = {[document_id |-> 1, result |-> Analysis("Y")]}
    /\ seq = LoadedSeq
    /\ advLock = "r1"
    /\ tx = [s \in Sessions |-> NoTx]
    /\ bpc = [r \in Replicas |-> IF r = "r1" THEN "returned" ELSE "skipped"]
    /\ bidx = [r \in Replicas |-> IF r = "r1" THEN 3 ELSE 1]
    /\ bmax = [r \in Replicas |-> IF r = "r1" THEN 2 ELSE 0]
    /\ bwrites = [r \in Replicas |-> IF r = "r1" THEN 6 ELSE 0]
    /\ blog = [r \in Replicas |->
                 IF r = "r1"
                 THEN << "ddl", "ddl", "ddl", "upsert", "upsert", "read_max", "setval" >>
                 ELSE << >>]
    /\ berr = [r \in Replicas |-> "none"]
    /\ pre = [r \in Replicas |->
                 [schema |-> Relations,
                  docs |-> IF r = "r1" THEN LoadedDocs("Y", "Y") ELSE LoadedDocs("X", "Y"),
                  seq |-> LoadedSeq]]
    /\ restarts = 0
    /\ wpc = [w \in Workers |-> "idle"]
    /\ wrep = [w \in Workers |-> NoReplica]
    /\ wreq = [w \in Workers |-> NoReq]
    /\ wres = [w \in Workers |-> 0]
    /\ wbody = [w \in Workers |-> NoBody]
    /\ nreq = 0
    /\ hpc = "off"
    /\ hnew = 0
    /\ ProcInit

NextAnalysis == \E w \in Workers : AnalysisRequest(w)

SpecAnalysis == InitAnalysis /\ [][NextAnalysis]_vars

\* The same store, with transient analyses and deletes of analyses as well.
FrameRequest(w) ==
    \/ \E r \in Replicas, id \in 1..MaxId : TransientBegin(w, r, id)
    \/ TransientRespond(w)
    \/ \E r \in Replicas, id \in 1..MaxId : DeleteAnalysisBegin(w, r, id)
    \/ DeleteAnalysisCommit(w)

NextFrame == \E w \in Workers : AnalysisRequest(w) \/ FrameRequest(w)

SpecFrame == InitAnalysis /\ [][NextFrame]_vars

\* ------------------------------------------------- clients of a loaded store
\* The store some time after a bootstrap of a.txt and b.txt: a.txt has been
\* uploaded once more (and stored as a_1.txt), and any of the three documents
\* may have been deleted since.  Clients upload, view, list and delete.

UploadedRow == [id |-> 3, filename |-> Renamed(Names[1], 1), content |-> "U"]
UploadedSeq == [exists |-> TRUE, last |-> 3, called |-> TRUE]

InitUpload ==
    /\ dir = [exists |-> TRUE, files |-> [n \in NameSet |-> IF n = Names[1] THEN "X" ELSE "Y"]]
    /\ engine = [r \in Replicas |-> TRUE]
    /\ schema = Relations
    /\ docs \in SUBSET (LoadedDocs("X", "Y") \cup {UploadedRow})
    /\ anas = {}
    /\ seq = UploadedSeq
    /\ advLock = "r1"
    /\ tx = [s \in Sessions |-> NoTx]
    /\ bpc = [r \in Replicas |-> IF r = "r1" THEN "returned" ELSE "skipped"]
    /\ bidx = [r \in Replicas |-> IF r = "r1" THEN 3 ELSE 1]
    /\ bmax = [r \in Replicas |-> IF r = "r1" THEN 2 ELSE 0]
    /\ bwrites = [r \in Replicas |-> IF r = "r1" THEN 6 ELSE 0]
    /\ blog = [r \in Replicas |->
                 IF r = "r1"
                 THEN << "ddl", "ddl", "ddl", "upsert", "upsert", "read_max", "setval" >>
                 ELSE << >>]
    /\ berr = [r \in Replicas |-> "none"]
    /\ pre = [r \in Replicas |->
                 IF r = "r1" THEN [schema |-> {}, docs |-> {}, seq |-> NoSeq]
                 ELSE [schema |-> Relations, docs |-> LoadedDocs("X", "Y"), seq |-> LoadedSeq]]
    /\ restarts = 0
    /\ wpc = [w \in Workers |-> "idle"]
    /\ wrep = [w \in Workers |-> NoReplica]
    /\ wreq = [w \in Workers |-> NoReq]
    /\ wres = [w \in Workers |-> 0]
    /\ wbody = [w \in Workers |-> NoBody]
    /\ nreq = 0
    /\ hpc = "off"
    /\ hnew = 0
    /\ ProcInit

\* An upload request with any form filename, file name and payload.
AnyUpload(w) ==
    \E r \in Replicas, form \in FormNames, orig \in OrigNames, bytes \in Payloads :
        UploadBegin(w, r, form, orig, bytes)

NextUpload ==
    \E w \in Workers :
        \/ AnyUpload(w)
        \/ UploadCheck(w)
        \/ UploadInsert(w)
        \/ UploadSetval(w)
        \/ UploadCommit(w)
        \/ \E r \in Replicas, id \in 1..MaxId : ViewBegin(w, r, id)
        \/ ViewRespond(w)
        \/ \E r \in Replicas : ListBegin(w, r)
        \/ ListRespond(w)
        \/ \E r \in Replicas, id \in 1..MaxId : DeleteBegin(w, r, id)
        \/ DeleteRow(w)
        \/ DeleteCommit(w)

SpecUpload == InitUpload /\ [][NextUpload]_vars

\* The same store with one client: a request arrives when none is in progress.
NoneInProgress == \A w \in Workers : wpc[w] = "idle"

NextRename ==
    \E w \in Workers :
        \/ NoneInProgress /\ AnyUpload(w)
        \/ UploadCheck(w)
        \/ UploadInsert(w)
        \/ UploadSetval(w)
        \/ UploadCommit(w)
        \/ NoneInProgress /\ \E r \in Replicas, id \in 1..MaxId : DeleteBegin(w, r, id)
        \/ DeleteRow(w)
        \/ DeleteCommit(w)

SpecRename == InitUpload /\ [][NextRename]_vars

\* ------------------------------------------------- startup of a process
\* The database is not reachable when the replicas start, and may become
\* reachable at any moment; once up it stays up.

DbComesUp ==
    /\ ~dbUp
    /\ dbUp' = TRUE
    /\ UNCHANGED << dir, engine, anas, serverVars, bootVars, restarts, workerVars,
                    harnessVars, nlpVars >>

\* Mutant: the result of the probe is ignored.
M_ProbeSucceeds_Always == TRUE

\* async with engine.connect() as conn: await conn.execute(text("SELECT 1"))
ProbeSucceeds == dbUp

\* wait_for_db_ready: while True: try the probe; return when it succeeds
DbProbe(r) ==
    /\ bpc[r] = "wait_db"
    /\ bpc' = [bpc EXCEPT ![r] = IF ProbeSucceeds THEN "start" ELSE "db_sleep"]
    /\ UNCHANGED << dir, procVars, engine, anas, serverVars, bidx, bmax, bwrites, blog, berr,
                    pre, restarts, workerVars, harnessVars >>

\* except Exception: await asyncio.sleep(1), then the next round of the loop
DbSleep(r) ==
    /\ bpc[r] = "db_sleep"
    /\ bpc' = [bpc EXCEPT ![r] = "wait_db"]
    /\ UNCHANGED << dir, procVars, engine, anas, serverVars, bidx, bmax, bwrites, blog, berr,
                    pre, restarts, workerVars, harnessVars >>

\* startup_event: await wait_for_db_ready(), then load_txt_files_to_db()
Startup(r) ==
    \/ DbProbe(r)
    \/ DbSleep(r)
    \/ Bootstrap(r)

InitStartup ==
    /\ dir \in Dirs
    /\ engine = [r \in Replicas |-> TRUE]
    /\ schema = {}
    /\ docs = {}
    /\ anas = {}
    /\ seq = NoSeq
    /\ advLock = NoSession
    /\ tx = [s \in Sessions |-> NoTx]
    /\ bpc = [r \in Replicas |-> "wait_db"]
    /\ bidx = [r \in Replicas |-> 1]
    /\ bmax = [r \in Replicas |-> 0]
    /\ bwrites = [r \in Replicas |-> 0]
    /\ blog = [r \in Replicas |-> << >>]
    /\ berr = [r \in Replicas |-> "none"]
    /\ pre = [r \in Replicas |-> [schema |-> {}, docs |-> {}, seq |-> NoSeq]]
    /\ restarts = 0
    /\ wpc = [w \in Workers |-> "idle"]
    /\ wrep = [w \in Workers |-> NoReplica]
    /\ wreq = [w \in Workers |-> NoReq]
    /\ wres = [w \in Workers |-> 0]
    /\ wbody = [w \in Workers |-> NoBody]
    /\ nreq = 0
    /\ hpc = "off"
    /\ hnew = 0
    /\ dbUp = FALSE
    /\ npc = [t \in Threads |-> "idle"]
    /\ nlock = NoThread
    /\ nmodel = 0
    /\ nloads = 0
    /\ ngot = [t \in Threads |-> 0]
    /\ ncalls = 0

NextStartup ==
    \/ DbComesUp
    \/ \E r \in Replicas : Startup(r)

SpecStartup == InitStartup /\ [][NextStartup]_vars

\* Every replica goes on running its startup: the round of the wait loop and
\* the call of the bootstrap that are due are eventually executed.
SpecStartupFair ==
    SpecStartup /\ \A r \in Replicas :
        WF_vars(DbProbe(r)) /\ WF_vars(DbSleep(r)) /\ WF_vars(BootBegin(r))

\* ------------------------------------------------------ the spaCy model
\* Threads of the pool of asyncio.to_thread call get_nlp (run_nlp_analysis_sync);
\* the process is shut down when its requests have been served.

otherVars == << dir, engine, anas, serverVars, bootVars, restarts, workerVars, harnessVars, dbUp >>

\* run_nlp_analysis_sync: nlp = get_nlp()
NlpCall(t) ==
    /\ npc[t] = "idle"
    /\ ncalls < MaxCalls
    /\ ncalls' = ncalls + 1
    /\ npc' = [npc EXCEPT ![t] = "acquire"]
    /\ UNCHANGED << otherVars, nlock, nmodel, nloads, ngot >>

\* Mutant: the critical section is entered without waiting for the lock.
M_NlpAcquire_NoLock(t) ==
    /\ npc[t] = "acquire"
    /\ nlock' = t
    /\ npc' = [npc EXCEPT ![t] = "check"]
    /\ UNCHANGED << otherVars, nmodel, nloads, ngot, ncalls >>

\* with nlp_lock: (blocks while another thread holds the lock)
NlpAcquire(t) ==
    /\ npc[t] = "acquire"
    /\ nlock = NoThread
    /\ nlock' = t
    /\ npc' = [npc EXCEPT ![t] = "check"]
    /\ UNCHANGED << otherVars, nmodel, nloads, ngot, ncalls >>

\* if nlp_model is None:
NlpCheck(t) ==
    /\ npc[t] = "check"
    /\ npc' = [npc EXCEPT ![t] = IF nmodel = 0 THEN "load" ELSE "release"]
    /\ UNCHANGED << otherVars, nlock, nmodel, nloads, ngot, ncalls >>

\* nlp_model = spacy.load("en_core_web_lg"): each load makes a new object
NlpLoad(t) ==
    /\ npc[t] = "load"
    /\ nloads' = nloads + 1
    /\ nmodel' = nloads + 1
    /\ npc' = [npc EXCEPT ![t] = "release"]
    /\ UNCHANGED << otherVars, nlock, ngot, ncalls >>

\* end of the with block
NlpRelease(t) ==
    /\ npc[t] = "release"
    /\ nlock' = NoThread
    /\ npc' = [npc EXCEPT ![t] = "return"]
    /\ UNCHANGED << otherVars, nmodel, nloads, ngot, ncalls >>

\* return nlp_model (read after the lock has been released)
NlpReturn(t) ==
    /\ npc[t] = "return"
    /\ ngot' = [ngot EXCEPT ![t] = nmodel]
    /\ npc' = [npc EXCEPT ![t] = "idle"]
    /\ UNCHANGED << otherVars, nlock, nmodel, nloads, ncalls >>

\* shutdown_event: nlp_model = None; it runs when the server has drained its
\* requests, and the process exits after it.
Shutdown ==
    /\ \A t \in Threads : npc[t] = "idle"
    /\ nmodel' = 0
    /\ npc' = [t \in Threads |-> "exited"]
    /\ UNCHANGED << otherVars, nlock, nloads, ngot, ncalls >>

GetNlp(t) ==
    \/ NlpCall(t)
    \/ NlpAcquire(t)
    \/ NlpCheck(t)
    \/ NlpLoad(t)
    \/ NlpRelease(t)
    \/ NlpReturn(t)

NextNlp ==
    \/ \E t \in Threads : GetNlp(t)
    \/ Shutdown

SpecNlp == InitAnalysis /\ [][NextNlp]_vars

\* -------------------------------------------- sequence repair on its own
\* Rows are inserted with explicit ids (the generator is never used), then
\* _set_documents_sequence is called, then a row is inserted without an id.

FreshSeq == [exists |-> TRUE, last |-> SeqStart, called |-> FALSE]
ExplicitRow(i) ==
    [id |-> i, filename |-> FileName("doc" \o ToString(i), "txt"), content |-> "X"]
GeneratedName == FileName("new", "txt")

\* await _set_documents_sequence(conn), in a transaction of its own
RepairCall ==
    /\ hpc = "ready"
    /\ IF SetValRaises(RepairTarget(docs))
       THEN /\ hpc' = "raised"
            /\ UNCHANGED seq
       ELSE /\ hpc' = "repaired"
            /\ seq' = AfterSetVal(seq, RepairTarget(docs))
    /\ UNCHANGED << dir, procVars, engine, anas, schema, docs, advLock, tx, bootVars, restarts, workerVars, hnew >>

\* INSERT INTO documents (filename, content): the id is the sequence's nextval
GeneratedInsert ==
    /\ hpc = "repaired"
    /\ seq' = AfterNextVal(seq)
    /\ hnew' = NextVal(seq)
    /\ IF NextVal(seq) \in Ids(docs)
       THEN /\ hpc' = "collided"
            /\ UNCHANGED docs
       ELSE /\ hpc' = "done"
            /\ docs' = docs \cup {[id |-> NextVal(seq), filename |-> GeneratedName,
                                   content |-> "X"]}
    /\ UNCHANGED << dir, procVars, engine, anas, schema, advLock, tx, bootVars, restarts, workerVars >>

InitRepair ==
    /\ dir = NoDir
    /\ engine = [r \in Replicas |-> TRUE]
    /\ schema = Relations
    /\ anas = {}
    /\ docs \in {{ExplicitRow(i) : i \in S} : S \in SUBSET (1..MaxExplicitId)}
    /\ seq = FreshSeq
    /\ advLock = NoSession
    /\ tx = [s \in Sessions |-> NoTx]
    /\ bpc = [r \in Replicas |-> "start"]
    /\ bidx = [r \in Replicas |-> 1]
    /\ bmax = [r \in Replicas |-> 0]
    /\ bwrites = [r \in Replicas |-> 0]
    /\ blog = [r \in Replicas |-> << >>]
    /\ berr = [r \in Replicas |-> "none"]
    /\ pre = [r \in Replicas |-> [schema |-> {}, docs |-> {}, seq |-> NoSeq]]
    /\ restarts = 0
    /\ wpc = [w \in Workers |-> "idle"]
    /\ wrep = [w \in Workers |-> NoReplica]
    /\ wreq = [w \in Workers |-> NoReq]
    /\ wres = [w \in Workers |-> 0]
    /\ wbody = [w \in Workers |-> NoBody]
    /\ nreq = 0
    /\ hpc = "ready"
    /\ hnew = 0
    /\ ProcInit

NextRepair == RepairCall \/ GeneratedInsert

SpecRepair == InitRepair /\ [][NextRepair]_vars

\* ------------------------------------------------------------------ claims

Acquirers == {r \in Replicas : bpc[r] \in WritePath \cup {"returned", "raised"}}
DecodableNames(d) ==
    {n \in NameSet : d.exists /\ IsTxt(n) /\ Decodable(d.files[n])}
EmptyCorpus(d) == ~d.exists \/ SortedTxt(d) = << >>
EmptyStore(snap) == snap.schema = {} /\ snap.docs = {}

\* C1: of the replicas that start together against an empty store (no process
\* has exited yet), at most one is ever past the lock; once all invocations are
\* over exactly one took the write path, and each of the others saw the lock
\* not acquired and issued no DDL, upsert or setval.
C1_ExactlyOneInitializer ==
    restarts = 0 =>
        /\ Cardinality(Acquirers) <= 1
        /\ (\A r \in Replicas : bpc[r] \in Finished) => Cardinality(Acquirers) = 1
        /\ \A r \in Replicas :
              bpc[r] = "skipped" => bwrites[r] = 0 /\ advLock \notin {r, NoSession}

C1_Witness ==
    /\ restarts = 0
    /\ \E r \in Replicas : bpc[r] = "returned" /\ bwrites[r] >= 5 /\ docs # {}
    /\ \E r \in Replicas : bpc[r] = "skipped"

\* C2: at most one bootstrap invocation is inside the write path, and every
\* invocation inside it (up to and including its commit) holds the advisory lock.
C2_WritersHoldLock ==
    /\ Cardinality({r \in Replicas : bpc[r] \in WritePath}) <= 1
    /\ \A r \in Replicas : bpc[r] \in WritePath => advLock = r /\ tx[r].open

C2_Witness ==
    \E r \in Replicas :
        /\ bpc[r] = "commit" /\ advLock = r /\ tx[r].ins # {}
        /\ \E o \in Replicas \ {r} : bpc[o] = "skipped"

\* C3 (as claimed): the lock is held only while its holder's transaction is
\* open, so that it is free again once the holder has returned or raised.
C3_LockFreeAfterTransaction == advLock # NoSession => tx[advLock].open

\* C4 (as claimed): when an invocation raises, the committed tables, index,
\* document rows and generator state are those found when it began.
C4_FailureRestoresStore ==
    [][\A r \in Replicas :
          (bpc[r] \in WritePath /\ bpc'[r] = "raised") => Snapshot' = pre[r]]_vars

\* C4 (amended): when an invocation raises, the committed tables, index and
\* document rows are those found when it began; the generator is not restored,
\* it keeps the values the failed upserts drew and never moves backwards.
C4_FailureRestoresTablesAndRows ==
    [][\A r \in Replicas :
          (bpc[r] \in WritePath /\ bpc'[r] = "raised") =>
              /\ schema' = pre[r].schema
              /\ docs' = pre[r].docs
              /\ ObservableSeq'.exists = pre[r].seq.exists
              /\ NextVal(ObservableSeq') >= NextVal(pre[r].seq)
              /\ ~tx'[r].open]_vars

C4_Witness ==
    \E r \in Replicas :
        /\ bpc[r] = "raised" /\ bwrites[r] >= 4
        /\ pre[r].docs # {} /\ docs = pre[r].docs
        /\ NextVal(ObservableSeq) > NextVal(pre[r].seq)

\* C5 (as claimed): while a bootstrap is in flight nothing of it is visible:
\* the store any other session reads is the one found when it began.
C5_NothingVisibleInFlight ==
    \A r \in Replicas : bpc[r] \in WritePath => Snapshot = pre[r]

\* C5 (amended): the tables, the index and the document rows of a bootstrap
\* become visible together at its commit: in flight none of them is visible,
\* after it returned all of them are.  Its sequence changes (the nextval of
\* each upsert, the setval) are visible as soon as they are made.
C5_SchemaAndRowsAtomic ==
    \A r \in Replicas :
        /\ bpc[r] \in WritePath => schema = pre[r].schema /\ docs = pre[r].docs
        /\ bpc[r] = "returned" =>
              /\ Relations \subseteq schema
              /\ \A n \in DecodableNames(dir) :
                    \E d \in docs : d.filename = n /\ d.content = dir.files[n]

C5_Witness ==
    \E r \in Replicas :
        /\ bpc[r] = "commit"
        /\ Relations \subseteq tx[r].ddl /\ tx[r].ins # {}
        /\ schema = {} /\ docs = {}

\* C6: once a bootstrap has committed, running bootstrap again on the same
\* directory leaves the committed schema and document rows as they are.
C6_BootstrapIdempotent ==
    [][Relations \subseteq schema => (schema' = schema /\ docs' = docs)]_vars

C6_Witness ==
    \E r \in Replicas :
        /\ bpc[r] = "returned" /\ bwrites[r] >= 5
        /\ pre[r].docs # {} /\ docs = pre[r].docs /\ Relations \subseteq pre[r].schema

\* C10 (as claimed): a lock-holding bootstrap against an empty store with a
\* missing or empty corpus directory raises nothing and commits: both tables
\* and the index exist and documents has no rows.
C10_EmptyCorpusCommits ==
    \A r \in Replicas :
        (/\ EmptyCorpus(dir) /\ EmptyStore(pre[r])
         /\ bpc[r] \in {"returned", "raised"}
         /\ berr[r] # "database error")
            => bpc[r] = "returned" /\ Relations \subseteq schema /\ docs = {}

\* C7 (as claimed): in every state any session can observe, the value the
\* generator hands out next is above the largest committed document id.
C7_GeneratorAboveMaxId ==
    "documents" \in schema => NextVal(seq) > MaxIdOf(docs)

ExplicitRows == {d \in docs : d.filename # GeneratedName}

\* C8: after explicit-id inserts of a non-empty set of rows, the repair does not
\* raise and the next generator-assigned insert gets max(existing id) + 1, an
\* id no existing row has.
C8_RepairThenInsertGetsMaxPlusOne ==
    /\ hpc = "raised" => docs = {}
    /\ hpc # "collided"
    /\ hpc = "done" =>
          /\ hnew = MaxIdOf(ExplicitRows) + 1
          /\ hnew \notin Ids(ExplicitRows)
          /\ Cardinality(docs) = Cardinality(ExplicitRows) + 1

C8_Witness ==
    /\ hpc = "done" /\ hnew = 13
    /\ Ids(ExplicitRows) = {3, 5, 12}

\* C9 (as claimed): on a documents table with no rows the repair does not raise,
\* and the next generator-assigned insert gets id 1.
C9_RepairOnEmptyTable ==
    /\ ~(hpc = "raised" /\ docs = {})
    /\ (hpc = "done" /\ ExplicitRows = {}) => hnew = 1

UndecodableNames(d) ==
    {n \in NameSet : d.exists /\ IsTxt(n) /\ d.files[n] = "bad"}
MixedCorpus(d) == DecodableNames(d) # {} /\ UndecodableNames(d) # {}

\* C11: for a directory mixing decodable and undecodable .txt files, a
\* lock-holding bootstrap (no statement failing in the database) raises nothing,
\* upserts every decodable file and issues no statement and leaves no row for
\* an undecodable one.
C11_UndecodableFileSkipped ==
    \A r \in Replicas :
        (MixedCorpus(dir) /\ berr[r] # "database error") =>
            /\ bpc[r] # "raised"
            /\ bpc[r] = "returned" =>
                  /\ \A n \in DecodableNames(dir) :
                        \E d \in docs : d.filename = n /\ d.content = dir.files[n]
                  /\ FileNames(docs) \cap UndecodableNames(dir) = {}
                  /\ Cardinality(docs) = Cardinality(DecodableNames(dir))
                  /\ Len(SelectSeq(blog[r], LAMBDA st : st = "upsert"))
                        = Cardinality(DecodableNames(dir))

C11_Witness ==
    \E r \in Replicas :
        /\ bpc[r] = "returned" /\ berr[r] = "none"
        /\ dir.files[Names[1]] = "bad" /\ dir.files[Names[2]] = "Y"
        /\ docs = {[id |-> 1, filename |-> Names[2], content |-> "Y"]}

RowsOutside(rows, names) == {d \in rows : d.filename \notin names}

\* C12 (as claimed): when a lock-holding bootstrap commits, documents holds
\* exactly one row per decodable .txt file of the directory, with its name and
\* content, and no other row, whatever the table held before.
C12_TableEqualsCorpus ==
    [][\A r \in Replicas :
          (bpc[r] = "commit" /\ bpc'[r] = "returned") =>
              /\ FileNames(docs') = DecodableNames(dir)
              /\ Cardinality(docs') = Cardinality(DecodableNames(dir))
              /\ \A d \in docs' : d.content = dir.files[d.filename]]_vars

\* C12 (amended): when a lock-holding bootstrap commits, documents holds exactly
\* one row for each decodable .txt file of the directory, with its name and
\* content; the rows with any other filename are kept as they were.
C12_CorpusRowsConverge ==
    [][\A r \in Replicas :
          (bpc[r] = "commit" /\ bpc'[r] = "returned") =>
              /\ \A n \in DecodableNames(dir) :
                    /\ Cardinality({d \in docs' : d.filename = n}) = 1
                    /\ \A d \in docs' : d.filename = n => d.content = dir.files[n]
              /\ RowsOutside(docs', DecodableNames(dir))
                    = RowsOutside(docs, DecodableNames(dir))]_vars

C12_Witness ==
    \E r \in Replicas :
        /\ bpc[r] = "returned" /\ DecodableNames(dir) # {}
        /\ RowsOutside(pre[r].docs, DecodableNames(dir)) # {}
        /\ RowsOutside(docs, DecodableNames(dir)) = RowsOutside(pre[r].docs, DecodableNames(dir))
        /\ DecodableNames(dir) \subseteq FileNames(docs)

\* C13: a corpus upsert of a filename the table does not hold adds exactly one
\* row (a new id, that name and content); an upsert of a filename it holds
\* replaces that row's content only, keeping its id and adding no row.  No
\* other row changes, so a reload of unchanged files changes nothing.
C13_UpsertKeyedByFilename ==
    [][\A r \in Replicas :
          (bpc[r] = "load" /\ blog'[r] = Append(blog[r], "upsert")) =>
              LET fn == SortedTxt(dir)[bidx[r]]
                  before == View(r)
                  after == View(r)'
              IN IF fn \in FileNames(before)
                 THEN LET old == CHOOSE d \in before : d.filename = fn IN
                      after = (before \ {old}) \cup
                                {[id |-> old.id, filename |-> fn, content |-> dir.files[fn]]}
                 ELSE \E d \in after :
                        /\ d.filename = fn /\ d.content = dir.files[fn]
                        /\ d.id \notin Ids(before)
                        /\ after = before \cup {d}]_vars

\* An upsert has overwritten the content of a stored row, keeping its id.
C13_Witness ==
    \E r \in Replicas : \E u \in tx[r].upd : \E d \in docs :
        /\ bpc[r] \in WritePath
        /\ d.id = u.id /\ d.filename = u.filename /\ d.content # u.content
        /\ Cardinality(View(r)) = Cardinality(docs)

\* C14: an invocation that does not get the lock never waits for the holder:
\* its lock attempt always ends whatever the holder does, and when the lock is
\* refused it returns to the caller without an exception, its transaction
\* over, having issued no DDL, no upsert and no sequence repair and having
\* changed nothing in the store.
C14_LoserReturnsWithoutWaiting ==
    /\ [](\A r \in Replicas :
            bpc[r] = "skipped" =>
                /\ bwrites[r] = 0 /\ blog[r] = << >>
                /\ berr[r] = "none" /\ ~tx[r].open)
    /\ [][\A r \in Replicas :
            (bpc[r] = "lock" /\ advLock \notin {r, NoSession} /\ bpc'[r] \notin {"lock", "start"})
                => (bpc'[r] = "skipped" /\ UNCHANGED << schema, docs, seq, advLock >>)]_vars
    /\ \A r \in Replicas : (bpc[r] = "lock") ~> (bpc[r] # "lock")

\* An invocation has returned while the holder is still inside its transaction.
C14_Witness ==
    \E r \in Replicas, o \in Replicas :
        /\ bpc[r] = "skipped" /\ bwrites[r] = 0 /\ berr[r] = "none"
        /\ bpc[o] \in WritePath /\ advLock = o /\ tx[o].open

StatementRank(st) ==
    CASE st = "ddl" -> 1
      [] st = "upsert" -> 2
      [] st = "read_max" -> 3
      [] OTHER -> 4
LoopOver(r) == ~dir.exists \/ bidx[r] > Len(SortedTxt(dir))

\* C15: the statements of one lock-holding invocation run in one transaction
\* and in this order: the three schema statements, then the corpus upserts,
\* then the repair, which reads max(id) once the load loop is over and sets
\* the sequence to the value it read.
C15_SchemaThenLoadThenRepair ==
    \A r \in Replicas :
        /\ \A i \in 1..Len(blog[r]) : \A j \in i..Len(blog[r]) :
              StatementRank(blog[r][i]) <= StatementRank(blog[r][j])
        /\ \A i \in 1..Len(blog[r]) :
              blog[r][i] \in {"upsert", "read_max"} =>
                  i > 3 /\ \A k \in 1..3 : blog[r][k] = "ddl"
        /\ Len(SelectSeq(blog[r], LAMBDA st : st = "read_max")) <= 1
        /\ Len(SelectSeq(blog[r], LAMBDA st : st = "setval")) <= 1
        /\ bpc[r] \in WritePath =>
              /\ tx[r].open
              /\ schema = pre[r].schema /\ docs = pre[r].docs
              /\ Len(blog[r]) >= 3 => Relations \subseteq VisibleSchema(r)
        /\ bpc[r] \in {"repair_set", "commit"} =>
              /\ LoopOver(r)
              /\ bmax[r] = MaxIdOf(View(r))
              /\ blog[r][Len(blog[r])] = IF bpc[r] = "commit" THEN "setval" ELSE "read_max"

C15_Witness ==
    \E r \in Replicas :
        /\ bpc[r] = "commit"
        /\ blog[r] = << "ddl", "ddl", "ddl", "upsert", "upsert", "read_max", "setval" >>
        /\ bmax[r] = 2 /\ seq.last = 2

AnalysesOf(rows, id) == {a \in rows : a.document_id = id}

\* C16: a delete_text that succeeds removes the document and, with it, its
\* analysis if there is one (no other row changes), whether or not the
\* document had an analysis; no analysis is ever left without its document,
\* and a later lookup of the deleted id (delete_text, analyze_and_store,
\* get_analysis) answers 404.
C16_DeleteRemovesAnalysis ==
    /\ [](\A a \in anas : a.document_id \in Ids(docs))
    /\ [][\A w \in Workers :
            (wpc[w] = "d_commit" /\ wpc'[w] = "idle") =>
                LET id == wreq[w].doc_id IN
                /\ wres'[w] = 200
                /\ docs' = {d \in docs : d.id # id}
                /\ anas' = {a \in anas : a.document_id # id}
                /\ AnalysesOf(anas', id) = {}]_vars
    /\ [][\A w \in Workers :
            (wpc[w] = "g_read" /\ wpc'[w] = "idle" /\ wreq[w].doc_id \notin Ids(docs))
                => wres'[w] = 404]_vars
    /\ [][(nreq' = nreq + 1 /\ wpc' = wpc) =>
            \E w \in Workers : TakesRequest(w) /\ wres'[w] = 404]_vars

\* The only request so far deleted document 1, which had an analysis.
C16_Witness ==
    \E w \in Workers :
        /\ nreq = 1 /\ wpc[w] = "idle" /\ wres[w] = 200
        /\ 1 \notin Ids(docs) /\ 2 \in Ids(docs) /\ anas = {}

\* C17: no document ever has two analysis rows; an analyze_and_store that
\* succeeds leaves exactly one row for its document, holding the analysis of
\* the text it read (an older row is replaced), and touches no other row;
\* get_analysis answers 200 exactly when the document has an analysis row.
C17_OneAnalysisPerDocument ==
    /\ [](\A id \in 1..MaxId : Cardinality(AnalysesOf(anas, id)) <= 1)
    /\ [][\A w \in Workers :
            (wpc[w] = "a_store" /\ wpc'[w] = "idle" /\ wres'[w] = 200) =>
                LET id == wreq[w].doc_id IN
                /\ AnalysesOf(anas', id)
                      = {[document_id |-> id, result |-> Analysis(wreq[w].content)]}
                /\ anas' \ AnalysesOf(anas', id) = anas \ AnalysesOf(anas, id)]_vars
    /\ [][\A w \in Workers :
            (wpc[w] = "g_read" /\ wpc'[w] = "idle") =>
                ((wres'[w] = 200) <=> (AnalysesOf(anas, wreq[w].doc_id) # {}))]_vars

\* The old analysis of document 1 has been replaced and then read back.
C17_Witness ==
    \E w \in Workers :
        /\ nreq = 2 /\ wpc[w] = "idle" /\ wres[w] = 200
        /\ anas = {[document_id |-> 1, result |-> Analysis("X")]}
        /\ Cardinality(docs) = 2

\* C18: no two committed documents share a filename (nor an id), whatever
\* the interleaving of bootstrap loads, uploads and deletes.
C18_FilenameUnique ==
    \A d1 \in docs : \A d2 \in docs :
        (d1.filename = d2.filename \/ d1.id = d2.id) => d1 = d2

\* Two uploads ran at the same time against a table holding a.txt and b.txt:
\* one was stored under a new name, the other was refused.
C18_Witness ==
    /\ nreq = 2 /\ wres["w1"] = 201 /\ wres["w2"] = 500
    /\ NameSet \subseteq FileNames(docs)
    /\ Cardinality(docs) = 3
    /\ \E d \in docs : d.content \in UploadContents /\ d.filename \notin NameSet

\* C19: load_txt_files_to_db called before set_engine raises at once: no
\* session is opened, the lock is not attempted, no statement is issued and
\* the store is as it was.
C19_NoEngineFailsFast ==
    /\ [][\A r \in Replicas :
            (bpc[r] = "start" /\ ~engine[r] /\ bpc'[r] # "start") =>
                /\ bpc'[r] = "raised" /\ berr'[r] = "engine not set"
                /\ ~tx'[r].open /\ blog'[r] = << >>
                /\ UNCHANGED << schema, docs, anas, seq, advLock, tx >>]_vars
    /\ [](\A r \in Replicas :
            berr[r] = "engine not set" =>
                /\ bpc[r] = "raised" /\ ~tx[r].open /\ advLock # r
                /\ bwrites[r] = 0 /\ blog[r] = << >>)

\* One caller failed fast; the store another caller initialized is untouched.
C19_Witness ==
    \E r \in Replicas, o \in Replicas :
        /\ bpc[r] = "raised" /\ berr[r] = "engine not set" /\ ~engine[r]
        /\ bpc[o] = "returned" /\ advLock = o /\ docs # {}

\* C20: whatever the outcome of load_txt_files_to_db (returned, skipped or
\* raised, with any error), startup_event completes and the replica serves:
\* a request that finds a free worker is accepted.
C20_StartupCompletes ==
    \A r \in Replicas :
        bpc[r] \in Finished =>
            /\ Serving(r)
            /\ (nreq < MaxRequests /\ \E w \in Workers : wpc[w] = "idle") =>
                  ENABLED (\E w \in Workers, id \in 1..MaxId : DeleteBegin(w, r, id))

\* A replica whose bootstrap raised is handling a request.
C20_Witness ==
    \E r \in Replicas, w \in Workers :
        /\ bpc[r] = "raised" /\ berr[r] # "none"
        /\ wrep[w] = r /\ wpc[w] # "idle"

\* C26: the documents id generator is monotonically increasing: across uploads,
\* deletes and bootstraps the current value of the sequence never decreases
\* while the sequence exists.
C26_GeneratorNeverDecreases ==
    [][(seq.exists /\ seq'.exists) => seq'.last >= seq.last]_vars

\* C25: every analysis row references an existing document in every state;
\* when analyze_and_store has read a document that a delete_text removes
\* before the write, the write fails (500) and no analysis row is created;
\* rows of analyses appear only for documents present at the write.
C25_NoOrphanAnalysis ==
    /\ [](\A a \in anas : \E d \in docs : d.id = a.document_id)
    /\ [][\A w \in Workers :
            (wpc[w] = "a_store" /\ wpc'[w] = "idle" /\ wreq[w].doc_id \notin Ids(docs))
                => (wres'[w] = 500 /\ anas' = anas)]_vars
    /\ [][\A a \in anas' \ anas : a.document_id \in Ids(docs) \cap Ids(docs')]_vars

\* analyze_and_store has read document 1, a delete_text of document 1 has
\* committed since (taking the old analysis with it), and the write is due.
C25_Witness ==
    \E w \in Workers, v \in Workers :
        /\ wpc[w] = "a_store" /\ wreq[w].doc_id = 1
        /\ wpc[v] = "idle" /\ wres[v] = 200
        /\ 1 \notin Ids(docs) /\ anas = {}

UploadCommitted(w) == wpc[w] = "u_commit" /\ wpc'[w] = "idle"
ViewAnswered(w) == wpc[w] = "v_read" /\ wpc'[w] = "idle"

\* C22: an upload of the UTF-8 encoding of a text that succeeds stores the row
\* (returned id, returned stored filename, that text); a stored row stays as
\* it is until a delete_text of its id commits; view_text of a stored id
\* answers 200 with exactly the row's content and filename.  In particular a
\* view of the id an upload has just returned gives the returned filename and
\* an uploaded text.
C22_UploadRoundTrip ==
    /\ [][\A w \in Workers, r \in Replicas, form \in FormNames, orig \in OrigNames,
             c \in UploadTexts :
            (UploadBegin(w, r, form, orig, Utf8(c)) /\ wpc'[w] = "u_check")
                => wreq'[w].content = c]_vars
    /\ [][\A w \in Workers :
            UploadCommitted(w) =>
                /\ wres'[w] = 201
                /\ {d \in docs' : d.id = wbody'[w].id}
                     = {[id |-> wbody'[w].id, filename |-> wbody'[w].filename,
                         content |-> wreq[w].content]}]_vars
    /\ [][\A d \in docs :
            \/ d \in docs'
            \/ \E w \in Workers :
                  wpc[w] = "d_commit" /\ wpc'[w] = "idle" /\ wreq[w].doc_id = d.id]_vars
    /\ [][\A w \in Workers :
            ViewAnswered(w) =>
                \A d \in docs :
                    d.id = wreq[w].doc_id =>
                        /\ wres'[w] = 200
                        /\ wbody'[w] = [NoBody EXCEPT !.id = d.id, !.filename = d.filename,
                                                      !.content = d.content]]_vars
    /\ [][\A w \in Workers, v \in Workers :
            (/\ ViewAnswered(w) /\ nreq = 2
             /\ wpc[v] = "idle" /\ wres[v] = 201 /\ wbody[v].id = wreq[w].doc_id)
                => /\ wres'[w] = 200
                   /\ wbody'[w].filename = wbody[v].filename
                   /\ wbody'[w].content \in UploadTexts]_vars

\* An upload of "V" under the name a.txt was stored as a_2.txt with id 4,
\* and the view of document 4 that followed returned that name and "V".
C22_Witness ==
    \E w \in Workers, v \in Workers :
        /\ w # v /\ nreq = 2 /\ wpc[w] = "idle" /\ wpc[v] = "idle"
        /\ wres[v] = 201 /\ wbody[v].id = 4 /\ wbody[v].filename = Renamed(Names[1], 2)
        /\ wres[w] = 200
        /\ wbody[w] = [NoBody EXCEPT !.id = 4, !.filename = Renamed(Names[1], 2),
                                     !.content = "V"]

\* C23: an upload whose bytes are not valid UTF-8, or whose filename form
\* field is given and does not end in .txt (compared in lower case), is
\* answered 400 in the step in which it arrives: no transaction is opened,
\* no document row is inserted and the sequence is unchanged.
C23_InvalidUploadRejected ==
    [][\A w \in Workers, r \in Replicas, form \in FormNames, orig \in OrigNames,
          bytes \in Payloads :
         (/\ UploadBegin(w, r, form, orig, bytes)
          /\ (~bytes.utf8 \/ (form # NoName /\ Lower(form.ext) # "txt")))
             => /\ wres'[w] = 400
                /\ wpc'[w] = "idle"
                /\ ~tx'[w].open
                /\ UNCHANGED << docs, seq, tx, schema, anas >>]_vars

\* The first request was an upload that was answered 400; the store is one
\* of the initial stores and no transaction was opened.
C23_Witness ==
    \E w \in Workers :
        /\ nreq = 1 /\ wres[w] = 400 /\ wpc[w] = "idle"
        /\ \A s \in Sessions : tx[s] = NoTx
        /\ seq = UploadedSeq /\ Cardinality(docs) = 3

\* C24: an upload that gets past its checks reads next_id = max(id) + 1 of the
\* table as its transaction sees it at its start (1 on an empty table),
\* inserts its row with that id, sets the sequence to that id before it
\* commits, and on commit returns that id, which is the id of the row
\* it added to documents.
C24_UploadAssignsMaxPlusOne ==
    /\ [][\A w \in Workers :
            (wpc[w] = "idle" /\ wpc'[w] = "u_check") =>
                /\ \A d \in docs : d.id < wreq'[w].next_id
                /\ wreq'[w].next_id = 1 \/ wreq'[w].next_id - 1 \in Ids(docs)
                /\ docs = {} => wreq'[w].next_id = 1
                /\ tx'[w].open]_vars
    /\ [][\A w \in Workers :
            (wpc[w] = "u_insert" /\ wpc'[w] = "u_setval") =>
                /\ tx'[w].ins = {[id |-> wreq[w].next_id, filename |-> wreq[w].candidate,
                                  content |-> wreq[w].content]}
                /\ wreq'[w].next_id = wreq[w].next_id]_vars
    /\ [][\A w \in Workers :
            (wpc[w] = "u_setval" /\ wpc'[w] = "u_commit") =>
                /\ seq'.last = wreq[w].next_id /\ seq'.called
                /\ tx[w].open /\ tx'[w] = tx[w]]_vars
    /\ [][\A w \in Workers :
            UploadCommitted(w) =>
                /\ wres'[w] = 201
                /\ wbody'[w].id = wreq[w].next_id
                /\ Ids(docs') \ Ids(docs) = {wreq[w].next_id}]_vars

\* Every document had been deleted; the upload that followed returned id 1,
\* stored its row under id 1 and left the sequence at 1.
C24_Witness ==
    \E w \in Workers :
        /\ nreq = 1 /\ wpc[w] = "idle" /\ wres[w] = 201
        /\ wbody[w].id = 1 /\ Ids(docs) = {1} /\ seq.last = 1

InsertedRow(w) == wpc[w] \in {"u_setval", "u_commit"}

NameWithSuffix(base, k) == FileName(base.stem \o "_" \o ToString(k), "txt")

\* C30: with one request at a time, the collision loop of an upload makes at
\* most as many renames as there are documents, and leaves it with the
\* requested base name when no document has it, otherwise with
\* <stem>_<k>.txt for the smallest k >= 1 that no document has; the name is
\* not the filename of any document, and it is the filename stored and returned.
C30_CollisionRenaming ==
    /\ [](\A w \in Workers : wpc[w] = "u_check" => wreq[w].suffix <= Cardinality(docs))
    /\ [][\A w \in Workers :
            (wpc[w] = "u_check" /\ wpc'[w] = "u_insert") =>
                LET names == FileNames(docs)
                    base == wreq[w].base
                    stored == wreq'[w].candidate
                IN /\ stored \notin names
                   /\ base \notin names => stored = base
                   /\ base \in names =>
                        \E k \in 1..Cardinality(docs) :
                            /\ stored = NameWithSuffix(base, k)
                            /\ \A j \in 1..(k - 1) : NameWithSuffix(base, j) \in names]_vars
    /\ [][\A w \in Workers :
            UploadCommitted(w) =>
                /\ wbody'[w].filename = wreq[w].candidate
                /\ \E d \in docs' \ docs : d.filename = wreq[w].candidate]_vars

\* The table held a.txt and a_1.txt; an upload named a.txt was stored as a_2.txt.
C30_Witness ==
    \E w \in Workers :
        /\ nreq = 1 /\ wpc[w] = "idle" /\ wres[w] = 201
        /\ wbody[w].filename = NameWithSuffix(Names[1], 2)
        /\ {Names[1], NameWithSuffix(Names[1], 1), NameWithSuffix(Names[1], 2)}
              \subseteq FileNames(docs)

\* C21: in a single-replica deployment, once startup_event has returned the
\* documents table exists, whatever the corpus directory holds (no directory
\* and no files included), and every listing of files is answered 200.
C21_TablesExistAfterStartup ==
    /\ [](Serving(Single) => "documents" \in schema)
    /\ [][\A w \in Workers :
            (wpc[w] = "l_read" /\ wpc'[w] = "idle") => wres'[w] = 200]_vars

\* C28: in one process, whatever the interleaving of the threads calling
\* get_nlp, spacy.load is executed at most once, it has been executed exactly
\* once when a call is past the critical section, and every call returns the
\* object of that one load.
C28_ModelLoadedOnce ==
    /\ [](nloads <= 1)
    /\ [](\A t \in Threads : npc[t] \in {"release", "return"} => (nloads = 1 /\ nmodel = 1))
    /\ [](\A t \in Threads : ngot[t] # 0 => (nloads = 1 /\ ngot[t] = 1))
    /\ [][\A t \in Threads :
            (npc[t] = "return" /\ npc'[t] = "idle") => (ngot'[t] = 1 /\ nloads' = 1)]_vars

\* Three threads were inside get_nlp together before any model was loaded:
\* one loaded it while the other two waited for the lock.
C28_Witness ==
    \E t \in Threads :
        /\ npc[t] = "release" /\ nlock = t /\ nloads = 1
        /\ \A u \in Threads \ {t} : npc[u] = "acquire" /\ ngot[u] = 0

Waiting(r) == bpc[r] \in {"wait_db", "db_sleep"}

\* C29: a replica leaves wait_for_db_ready only by a probe that the database
\* answered, so the bootstrap is never begun while no probe has succeeded;
\* a failed probe is followed by another; once the database is reachable
\* the wait ends and load_txt_files_to_db is called, and a replica that has
\* called it never waits for the database or calls it again.
C29_WaitForDbThenBootstrapOnce ==
    /\ [](\A r \in Replicas : ~Waiting(r) => dbUp)
    /\ [][\A r \in Replicas :
            (Waiting(r) /\ ~Waiting(r)') => (dbUp /\ bpc[r] = "wait_db" /\ bpc'[r] = "start")]_vars
    /\ [][\A r \in Replicas :
            (bpc[r] = "wait_db" /\ ~dbUp /\ bpc'[r] # bpc[r]) => bpc'[r] = "db_sleep"]_vars
    /\ [][\A r \in Replicas :
            (~Waiting(r) /\ bpc[r] # "start") => (~Waiting(r)' /\ bpc'[r] # "start")]_vars
    /\ \A r \in Replicas : dbUp ~> (~Waiting(r) /\ bpc[r] # "start")

\* One replica has bootstrapped after the database came up, while the other,
\* whose probe failed before that, is still asleep in the wait loop.
C29_Witness ==
    /\ dbUp
    /\ bpc["r1"] = "returned"
    /\ bpc["r2"] = "db_sleep"

Stored == << schema, docs, anas, seq >>

\* C31: no step of analyze_file changes the documents table, the analyses
\* table, the sequence or any transaction, whether the document exists (the
\* analysis is returned, or 500 when it fails) or not (404).
C31_TransientAnalysisChangesNothing ==
    /\ [][\A w \in Workers, r \in Replicas, id \in 1..MaxId :
            TransientBegin(w, r, id) =>
                /\ UNCHANGED << Stored, tx >>
                /\ id \notin Ids(docs) => (wres'[w] = 404 /\ wpc'[w] = "idle")]_vars
    /\ [][\A w \in Workers :
            (wpc[w] = "t_analyse" /\ wpc'[w] = "idle") =>
                /\ UNCHANGED << Stored, tx >>
                /\ wres'[w] \in {200, 500}
                /\ wres'[w] = 200 => wbody'[w].result = Analysis(wreq[w].content)]_vars

\* The only request so far analysed document 1 transiently: the analysis of
\* its present text was returned, and the stored analysis is still the old one.
C31_Witness ==
    \E w \in Workers :
        /\ nreq = 1 /\ wpc[w] = "idle" /\ wres[w] = 200
        /\ wbody[w].result = Analysis("X")
        /\ anas = {[document_id |-> 1, result |-> Analysis("Y")]}
        /\ docs = LoadedDocs("X", "Y") /\ seq = LoadedSeq

\* C32: a delete_analysis of d that finds an analysis answers 200 and removes
\* the analysis rows of d and nothing else (documents, the other analyses and
\* the sequence are unchanged); when d has no analysis it answers 404 and
\* changes nothing; a delete_text of an id that no document has answers 404
\* and changes nothing.
C32_DeleteAnalysisRemovesOnlyThat ==
    /\ [][\A w \in Workers :
            (wpc[w] = "x_delete" /\ wpc'[w] = "idle") =>
                LET id == wreq[w].doc_id IN
                /\ wres'[w] = 200
                /\ AnalysesOf(anas', id) = {}
                /\ anas' \ AnalysesOf(anas, id) = anas \ AnalysesOf(anas, id)
                /\ UNCHANGED << schema, docs, seq >>]_vars
    /\ [][\A w \in Workers, r \in Replicas, id \in 1..MaxId :
            DeleteAnalysisBegin(w, r, id) =>
                /\ UNCHANGED Stored
                /\ ("analyses" \in schema /\ AnalysesOf(anas, id) = {})
                      => (wres'[w] = 404 /\ wpc'[w] = "idle" /\ tx' = tx)]_vars
    /\ [][\A w \in Workers, r \in Replicas, id \in 1..MaxId :
            (DeleteBegin(w, r, id) /\ "documents" \in schema /\ id \notin Ids(docs))
                => (wres'[w] = 404 /\ wpc'[w] = "idle" /\ UNCHANGED << Stored, tx >>)]_vars

\* Document 2 was analysed and stored, then the analysis of document 1 was
\* deleted: both documents and the analysis of document 2 are still there.
C32_Witness ==
    \E w \in Workers :
        /\ nreq = 2 /\ wpc[w] = "idle" /\ wres[w] = 200
        /\ anas = {[document_id |-> 2, result |-> Analysis("Y")]}
        /\ docs = LoadedDocs("X", "Y")
        /\ \A v \in Workers : wpc[v] = "idle"

====
